---- MODULE Spec2Model ----
(***************************************************************************)
(* Bloomington service-request dashboards (app.py, liveapp.py).            *)
(*                                                                         *)
(* The model follows the data path of the two Streamlit scripts: the       *)
(* cached load_data functions, the category/date filters of main, and the  *)
(* aggregations that feed the charts.  Timestamps are whole hours since    *)
(* 1970-01-01 00:00, dates are whole days since 1970-01-01, a DataFrame is *)
(* a record [rows, columns] whose rows keep their order.                   *)
(***************************************************************************)
EXTENDS Integers, Sequences, FiniteSets, TLC

VARIABLES
    data,       \* the DataFrame object handed to the filter / aggregation call
    before,     \* that object as it was when the call started
    op,         \* the call that ran last
    arg,        \* its category argument
    out,        \* the value it returned
    source,     \* rows of Cleaned_Open311.csv as they are on disk
    now,        \* datetime.now().year
    cache,      \* st.cache_data store of app.load_data: argument pair -> table
    call,       \* the last app.load_data call: arguments, clock, file, result
    run,        \* the last request cycle of app.main
    remote,     \* JSON array the Socrata endpoint answers with right now
    liveCache,  \* st.cache_data store of liveapp.load_data (no arguments)
    live        \* the last request cycle of liveapp.main

vars == <<data, before, op, arg, out, source, now, cache, call, run,
          remote, liveCache, live>>

aggVars  == <<data, before, op, arg, out>>
loadVars == <<source, now, cache, call>>
liveVars == <<remote, liveCache, live>>

-----------------------------------------------------------------------------
(* Bounds of the model.                                                    *)

MaxRows == 3        \* rows of a table handed to an aggregation
MaxSrcRows == 2     \* rows of the CSV file
MaxCached == 2      \* argument pairs the load cache holds
MaxLiveRows == 2    \* objects in the remote JSON array

-----------------------------------------------------------------------------
(* Missing markers and Python's None.                                      *)

\* pandas keeps NaT as the least 64-bit integer of a datetime column; the
\* model keeps it as the least integer it uses.
NaT == -2147483647

\* the missing marker of a numeric column
NaN == -2147483646

\* An optional argument is None or a value.
None == [none |-> TRUE]
Some(v) == [none |-> FALSE, v |-> v]

-----------------------------------------------------------------------------
(* Calendar arithmetic behind pd.to_datetime, .dt.date, .dt.year,          *)
(* .dt.month_name(), .dt.to_period('M').dt.to_timestamp() and .dt.days.    *)

DaysFromCivil(y, m, d) ==
    LET yy  == IF m <= 2 THEN y - 1 ELSE y
        era == yy \div 400
        yoe == yy - era * 400
        mp  == IF m > 2 THEN m - 3 ELSE m + 9
        doy == (153 * mp + 2) \div 5 + d - 1
        doe == yoe * 365 + yoe \div 4 - yoe \div 100 + doy
    IN  era * 146097 + doe - 719468

CivilFromDays(z) ==
    LET zz  == z + 719468
        era == zz \div 146097
        doe == zz - era * 146097
        yoe == (doe - doe \div 1460 + doe \div 36524 - doe \div 146096) \div 365
        doy == doe - (365 * yoe + yoe \div 4 - yoe \div 100)
        mp  == (5 * doy + 2) \div 153
        d   == doy - (153 * mp + 2) \div 5 + 1
        m   == IF mp < 10 THEN mp + 3 ELSE mp - 9
        y   == yoe + era * 400 + (IF m <= 2 THEN 1 ELSE 0)
    IN  [y |-> y, m |-> m, d |-> d]

\* A CSV timestamp cell is the empty text <<>> or the text of a date-time,
\* kept as its fields <<year, month, day, hour>>.
to_datetime(cell) ==
    IF cell = <<>> THEN NaT
    ELSE DaysFromCivil(cell[1], cell[2], cell[3]) * 24 + cell[4]

\* a datetime.date(y, m, d) argument
Date(y, m, d) == DaysFromCivil(y, m, d)

dt_date(ts)  == ts \div 24
dt_year(ts)  == CivilFromDays(dt_date(ts)).y
dt_month(ts) == CivilFromDays(dt_date(ts)).m

months_order == <<"January", "February", "March", "April", "May", "June", "July",
                  "August", "September", "October", "November", "December">>

month_name(ts) == months_order[dt_month(ts)]

\* .dt.to_period('M').dt.to_timestamp(): midnight of the first of the month
month_year(ts) ==
    LET c == CivilFromDays(dt_date(ts)) IN DaysFromCivil(c.y, c.m, 1) * 24

\* (closed_date - requested_datetime).dt.days: whole days, rounded down
resolution_days(requested, closed) ==
    IF requested = NaT \/ closed = NaT THEN NaN ELSE (closed - requested) \div 24

-----------------------------------------------------------------------------
(* The data the model draws from.                                          *)

\* service_name values, in string order (groupby sorts its keys)
ServiceNames == <<"Graffiti", "Pothole", "Streetlight">>
Cats == {ServiceNames[i] : i \in DOMAIN ServiceNames}
CatRank(c) == CHOOSE i \in DOMAIN ServiceNames : ServiceNames[i] = c

\* (requested_datetime, closed_date) cells of a CSV row
StampCells ==
    { << <<2023, 1, 15, 0>>,  <<2023, 1, 20, 0>> >>,    \* closed after 5 days
      << <<2023, 2, 10, 0>>,  <<>> >>,                  \* still open
      << <<2024, 1, 5, 12>>,  <<2023, 1, 20, 0>> >> }   \* closed before requested

CsvRows ==
    { [service_name |-> c, requested_datetime |-> p[1], closed_date |-> p[2]] :
        c \in Cats, p \in StampCells }

BaseColumns == {"service_name", "requested_datetime", "closed_date", "resolution_days"}

RECURSIVE SeqsUpTo(_, _)
SeqsUpTo(S, n) ==
    IF n = 0 THEN {<<>>}
    ELSE LET shorter == SeqsUpTo(S, n - 1)
         IN  shorter \cup {Append(s, x) : s \in {t \in shorter : Len(t) = n - 1}, x \in S}

\* read_csv followed by the conversions of load_data (lines 14-19)
read_row(raw) ==
    LET requested == to_datetime(raw.requested_datetime)
        closed    == to_datetime(raw.closed_date)
    IN  [service_name       |-> raw.service_name,
         requested_datetime |-> requested,
         closed_date        |-> closed,
         resolution_days    |-> resolution_days(requested, closed)]

read_csv(file) ==
    [rows |-> [i \in DOMAIN file |-> read_row(file[i])], columns |-> BaseColumns]

-----------------------------------------------------------------------------
(* Filter Engine: data[data['service_name'].isin(selection)].               *)

isin(T, C) ==
    [rows |-> SelectSeq(T.rows, LAMBDA r : r.service_name \in C),
     columns |-> T.columns]

\* variant: an empty list filters too (a test "is not None" in place of truthiness)
category_filter_always(T, C) ==
    IF C.none THEN T ELSE isin(T, C.v)

\* "if request_type:" / "if selected_types:" -- None and the empty list are
\* falsy and leave the table as it is.
category_filter(T, C) ==
    IF C.none \/ C.v = {} THEN T ELSE isin(T, C.v)

\* data[(dt.date >= start_date) & (dt.date <= end_date)]
date_filter(T, start_date, end_date) ==
    [rows |-> SelectSeq(T.rows, LAMBDA r :
                  /\ dt_date(r.requested_datetime) >= start_date
                  /\ dt_date(r.requested_datetime) <= end_date),
     columns |-> T.columns]

-----------------------------------------------------------------------------
(* Helpers of the aggregations.                                            *)

RECURSIVE count_of(_, _)
count_of(keys, k) ==
    IF keys = <<>> THEN 0
    ELSE (IF Head(keys) = k THEN 1 ELSE 0) + count_of(Tail(keys), k)

\* keys in the order in which they are first met (the hash table's order)
RECURSIVE first_seen(_)
first_seen(keys) ==
    IF keys = <<>> THEN <<>>
    ELSE LET front == first_seen(SubSeq(keys, 1, Len(keys) - 1))
             last  == keys[Len(keys)]
         IN  IF \E i \in DOMAIN front : front[i] = last THEN front
             ELSE Append(front, last)

\* the group keys <<primary, secondary>> of a groupby, sorted
RECURSIVE sorted_keys(_)
sorted_keys(S) ==
    IF S = {} THEN <<>>
    ELSE LET least == CHOOSE k \in S : \A j \in S :
                          \/ k[1] < j[1]
                          \/ k[1] = j[1] /\ k[2] <= j[2]
         IN  <<least>> \o sorted_keys(S \ {least})

RECURSIVE sum_of(_)
sum_of(values) ==
    IF values = <<>> THEN 0 ELSE Head(values) + sum_of(Tail(values))

\* Series.mean(): NaN entries are skipped and the sum of the rest is divided
\* by their number.  The quotient is kept exact as the pair (sum, n); with
\* nothing to average it is 0/0, which is NaN.
mean(values) ==
    LET present == SelectSeq(values, LAMBDA v : v # NaN)
    IN  [sum |-> sum_of(present), n |-> Len(present)]

Perms(n) ==
    {p \in [1..n -> 1..n] : \A i, j \in 1..n : p[i] = p[j] => i = j}

-----------------------------------------------------------------------------
(* plot_service_requests_over_time: the table behind the line chart.       *)

\* groupby('month_year').size().reset_index(name='count')
size_by_month(T) ==
    LET keys == [i \in DOMAIN T.rows |-> <<month_year(T.rows[i].requested_datetime), 0>>]
        ks   == sorted_keys({keys[i] : i \in DOMAIN keys})
    IN  [i \in DOMAIN ks |-> [month_year |-> ks[i][1], count |-> count_of(keys, ks[i])]]

\* groupby(['month_year', 'service_name']).size().reset_index(name='count')
size_by_month_and_service(T) ==
    LET keys == [i \in DOMAIN T.rows |->
                    <<month_year(T.rows[i].requested_datetime),
                      CatRank(T.rows[i].service_name)>>]
        ks   == sorted_keys({keys[i] : i \in DOMAIN keys})
    IN  [i \in DOMAIN ks |-> [month_year   |-> ks[i][1],
                              service_name |-> ServiceNames[ks[i][2]],
                              count        |-> count_of(keys, ks[i])]]

\* variant: groups by service as soon as anything is selected
group_by_service_any(selected_types) ==
    /\ ~selected_types.none
    /\ Cardinality(selected_types.v) >= 1

\* "selected_types and len(selected_types) > 1"
group_by_service(selected_types) ==
    /\ ~selected_types.none
    /\ Cardinality(selected_types.v) > 1

\* The function writes the month_year column into the DataFrame it was given
\* (line 34), then filters and groups a copy.
plot_service_requests_over_time(d, selected_types) ==
    LET given    == [d EXCEPT !.columns = @ \cup {"month_year"}]
        filtered == category_filter(given, selected_types)
    IN  [data |-> given,
         ret  |-> IF group_by_service(selected_types)
                  THEN size_by_month_and_service(filtered)
                  ELSE size_by_month(filtered)]

-----------------------------------------------------------------------------
(* plot_avg_response_time_by_month: the table behind the bar chart.        *)

AlphabeticalMonths ==
    <<"April", "August", "December", "February", "January", "July", "June",
      "March", "May", "November", "October", "September">>

RankIn(order, name) == CHOOSE i \in DOMAIN order : order[i] = name

\* groupby('month')['resolution_days'].mean().reset_index(): one row per month
\* name that occurs, group keys in string order
mean_by_month(T) ==
    LET names == [i \in DOMAIN T.rows |-> month_name(T.rows[i].requested_datetime)]
        ks    == sorted_keys({<<RankIn(AlphabeticalMonths, names[i]), 0>> :
                                 i \in DOMAIN names})
    IN  [i \in DOMAIN ks |->
            LET name == AlphabeticalMonths[ks[i][1]]
                rows == SelectSeq(T.rows, LAMBDA r : month_name(r.requested_datetime) = name)
            IN  [month |-> name,
                 resolution_days |-> mean([j \in DOMAIN rows |-> rows[j].resolution_days])]]

\* variant: the frame is left in groupby's string order
sort_by_month_unsorted(frame) == frame

\* pd.Categorical(..., categories=months_order, ordered=True), sort_values('month')
sort_by_month(frame) ==
    LET ks == sorted_keys({<<RankIn(months_order, frame[i].month), i>> : i \in DOMAIN frame})
    IN  [i \in DOMAIN ks |-> frame[ks[i][2]]]

\* The function writes the month column into the DataFrame it was given.
plot_avg_response_time_by_month(d) ==
    LET given == [d EXCEPT !.columns = @ \cup {"month"}]
    IN  [data |-> given, ret |-> sort_by_month(mean_by_month(given))]

-----------------------------------------------------------------------------
(* calculate_avg_response_time.                                            *)

\* data.dropna(subset=['requested_datetime', 'closed_date'])
dropna(T) ==
    SelectSeq(T.rows, LAMBDA r : r.requested_datetime # NaT /\ r.closed_date # NaT)

\* variant: an empty selection is reported as 0 days
calculate_avg_response_time_or_zero(T) ==
    IF dropna(T) = <<>> THEN [sum |-> 0, n |-> 1]
    ELSE mean([i \in DOMAIN dropna(T) |->
                  (dropna(T)[i].closed_date - dropna(T)[i].requested_datetime) \div 24])

calculate_avg_response_time(T) ==
    LET filtered_data == dropna(T)
        response_time == [i \in DOMAIN filtered_data |->
                             (filtered_data[i].closed_date
                                - filtered_data[i].requested_datetime) \div 24]
    IN  mean(response_time)

-----------------------------------------------------------------------------
(* Requests by service type (main, lines 237-239) and the unique count.    *)

\* data['service_name'].value_counts() before its sort: one row per distinct
\* value, in the order of first occurrence
count_values(T) ==
    LET names == [i \in DOMAIN T.rows |-> T.rows[i].service_name]
        ks    == first_seen(names)
    IN  [i \in DOMAIN ks |-> [service_name |-> ks[i], count |-> count_of(names, ks[i])]]

\* variant: ascending=True
sort_by_count_ascending(frame) ==
    {[i \in DOMAIN frame |-> frame[p[i]]] : p \in
        {q \in Perms(Len(frame)) :
            \A i, j \in DOMAIN frame : i < j => frame[q[i]].count <= frame[q[j]].count}}

\* sort_values(ascending=False) with the default kind='quicksort', which is
\* not a stable sort: every arrangement with non-increasing counts is a
\* possible outcome.
sort_by_count_descending(frame) ==
    {[i \in DOMAIN frame |-> frame[p[i]]] : p \in
        {q \in Perms(Len(frame)) :
            \A i, j \in DOMAIN frame : i < j => frame[q[i]].count >= frame[q[j]].count}}

\* value_counts() sorts by count, then line 239 sorts by count again
requests_by_service_type(T) ==
    UNION {sort_by_count_descending(counted) :
              counted \in sort_by_count_descending(count_values(T))}

\* data['service_name'].nunique()
nunique(T) == Len(first_seen([i \in DOMAIN T.rows |-> T.rows[i].service_name]))

-----------------------------------------------------------------------------
(* One call of a Filter Engine / Aggregator operation on a loaded table.   *)

LoadedTables == {read_csv(file) : file \in SeqsUpTo(CsvRows, MaxRows)}

Selections == {Some(C) : C \in SUBSET Cats} \cup {None}

InitAgg ==
    /\ data \in LoadedTables
    /\ before = data
    /\ op = "none" /\ arg = None /\ out = None
    /\ source = <<>> /\ now = 0 /\ cache = <<>> /\ call = None /\ run = None
    /\ remote = <<>> /\ liveCache = None /\ live = None

Filter(C) ==
    /\ op = "none"
    /\ before' = data
    /\ data' = data
    /\ op' = "filter" /\ arg' = C
    /\ out' = category_filter(data, C)
    /\ UNCHANGED <<loadVars, run, liveVars>>

MonthlySeries(C) ==
    /\ op = "none"
    /\ before' = data
    /\ LET r == plot_service_requests_over_time(data, C)
       IN  data' = r.data /\ out' = r.ret
    /\ op' = "monthly_series" /\ arg' = C
    /\ UNCHANGED <<loadVars, run, liveVars>>

MonthlyAvgResolution ==
    /\ op = "none"
    /\ before' = data
    /\ LET r == plot_avg_response_time_by_month(data)
       IN  data' = r.data /\ out' = r.ret
    /\ op' = "monthly_avg_resolution" /\ arg' = None
    /\ UNCHANGED <<loadVars, run, liveVars>>

MeanResolution ==
    /\ op = "none"
    /\ before' = data
    /\ data' = data
    /\ op' = "mean_resolution" /\ arg' = None
    /\ out' = calculate_avg_response_time(data)
    /\ UNCHANGED <<loadVars, run, liveVars>>

CategoryCounts ==
    /\ op = "none"
    /\ before' = data
    /\ data' = data
    /\ op' = "category_counts" /\ arg' = None
    /\ out' \in requests_by_service_type(data)
    /\ UNCHANGED <<loadVars, run, liveVars>>

CategoryCardinality ==
    /\ op = "none"
    /\ before' = data
    /\ data' = data
    /\ op' = "category_cardinality" /\ arg' = None
    /\ out' = nunique(data)
    /\ UNCHANGED <<loadVars, run, liveVars>>

NextAgg ==
    \/ \E C \in Selections : Filter(C)
    \/ \E C \in Selections : MonthlySeries(C)
    \/ MonthlyAvgResolution
    \/ MeanResolution
    \/ CategoryCounts
    \/ CategoryCardinality

SpecAgg == InitAgg /\ [][NextAgg]_vars

-----------------------------------------------------------------------------
(* Record Store of app.py: load_data behind @st.cache_data.                *)

\* The body of load_data: read and convert the file, then keep the rows of
\* the date range when both bounds are given, else those of the current year.
load_body(file, start_date, end_date, today) ==
    LET frame == read_csv(file)
    IN  IF ~start_date.none /\ ~end_date.none
        THEN date_filter(frame, start_date.v, end_date.v)
        ELSE [rows |-> SelectSeq(frame.rows, LAMBDA r :
                           dt_year(r.requested_datetime) = CivilFromDays(today).y),
              columns |-> frame.columns]

\* @st.cache_data: the store is keyed by the argument values; an entry, once
\* written, is returned for every later call with those arguments (no ttl,
\* no max_entries).
cached_load(store, file, start_date, end_date, today) ==
    LET key == <<start_date, end_date>>
    IN  IF key \in DOMAIN store
        THEN [ret |-> store[key], store |-> store]
        ELSE LET ret == load_body(file, start_date, end_date, today)
             IN  [ret   |-> ret,
                  store |-> [k \in DOMAIN store \cup {key} |->
                                IF k = key THEN ret ELSE store[k]]]

\* rows the CSV file may hold
FileRows == {r \in CsvRows : r.service_name \in {"Graffiti", "Pothole"}}

\* values of datetime.now().date() the model visits
Clock == {Date(2023, 6, 1), Date(2024, 6, 1)}

DateArgs == {Some(Date(2023, 1, 15)), Some(Date(2024, 1, 5))} \cup {None}

InitLoad ==
    /\ source \in SeqsUpTo(FileRows, MaxSrcRows)
    /\ now = Date(2023, 6, 1)
    /\ cache = <<>>
    /\ call = None
    /\ run = None
    /\ data = None /\ before = None /\ op = "none" /\ arg = None /\ out = None
    /\ remote = <<>> /\ liveCache = None /\ live = None

LoadData(start_date, end_date) ==
    /\ \/ <<start_date, end_date>> \in DOMAIN cache
       \/ Cardinality(DOMAIN cache) < MaxCached
    /\ LET r == cached_load(cache, source, start_date, end_date, now)
       IN  /\ cache' = r.store
           /\ call' = Some([start_date |-> start_date, end_date |-> end_date,
                            today |-> now, file |-> source, ret |-> r.ret])
    /\ UNCHANGED <<source, now, run, aggVars, liveVars>>

\* wall-clock time passes
Tick ==
    /\ \E later \in Clock : later > now /\ now' = later
    /\ UNCHANGED <<source, cache, call, run, aggVars, liveVars>>

\* the CSV file gains a row
FileChange ==
    /\ Len(source) < MaxSrcRows
    /\ \E r \in FileRows : source' = Append(source, r)
    /\ UNCHANGED <<now, cache, call, run, aggVars, liveVars>>

NextLoad ==
    \/ \E s \in DateArgs, e \in DateArgs : LoadData(s, e)
    \/ Tick
    \/ FileChange

SpecLoad == InitLoad /\ [][NextLoad]_vars

-----------------------------------------------------------------------------
(* One request cycle of app.main.                                          *)

RowDates(T) == {dt_date(T.rows[i].requested_datetime) : i \in DOMAIN T.rows}

Unique(T) == {T.rows[i].service_name : i \in DOMAIN T.rows}

\* what the cycle leaves when an exception ends it at the given place
Aborted(stage, loaded, selection) ==
    [raised |-> stage, loaded |-> loaded, selection |-> selection,
     total_requests |-> 0, avg_response_time |-> mean(<<>>),
     unique_request_types |-> 0, service_monthly |-> <<>>,
     avg_by_month |-> <<>>, requests_by_service_type |-> <<>>]

\* the cycle from line 133 on, for the widget values
\*   request_type             the sidebar multiselect (line 122)
\*   lo, hi                   the second pair of date inputs (lines 130-131)
\*   selected_service_types   the multiselect of the temporal analysis
\*   show_word_cloud          the check box of line 251
\*   counts                   the arrangement the sorts of lines 237-239 produce
Cycle(loaded, request_type, lo, hi) ==
    LET chosen   == date_filter(category_filter(loaded, Some(request_type)), lo, hi)
        \* lines 144-145 add two text columns when there is something to show
        shown    == IF chosen.rows # <<>>
                    THEN [chosen EXCEPT !.columns =
                             @ \cup {"requested_datetime_str", "closed_date_str"}]
                    ELSE chosen
    IN  \E selected_service_types \in SUBSET Unique(chosen), show_word_cloud \in BOOLEAN :
            LET series  == plot_service_requests_over_time(shown, Some(selected_service_types))
                monthly == plot_avg_response_time_by_month(series.data)
            IN  \E counts \in requests_by_service_type(monthly.data) :
                    run' = Some(
                       [raised |-> \* line 252: WordCloud.generate refuses a text
                                   \* without words
                                   IF show_word_cloud /\ chosen.rows = <<>>
                                   THEN "word_cloud" ELSE "",
                        loaded |-> loaded,
                        selection |-> chosen,
                        total_requests |-> Len(shown.rows),
                        avg_response_time |-> calculate_avg_response_time(shown),
                        unique_request_types |-> nunique(shown),
                        service_monthly |-> series.ret,
                        avg_by_month |-> monthly.ret,
                        requests_by_service_type |-> counts])

\* The whole of main; start_date and end_date are the values of the two
\* sidebar date inputs of lines 114-115, which lie between 1995-01-01 and today.
Main(start_date, end_date) ==
    LET r      == cached_load(cache, source, Some(start_date), Some(end_date), now)
        loaded == r.ret
    IN  /\ start_date <= now /\ end_date <= now
        /\ \/ <<Some(start_date), Some(end_date)>> \in DOMAIN cache
           \/ Cardinality(DOMAIN cache) < MaxCached
        /\ cache' = r.store
        /\ IF loaded.rows = <<>>
           THEN \* lines 125-131: min() and max() of an empty column are NaT,
                \* NaT.date() is NaT, and the date inputs cannot take NaT as
                \* value and bounds: the cycle ends with an exception
                run' = Some(Aborted("date_input", loaded, loaded))
           ELSE \E request_type \in SUBSET Unique(loaded),
                   lo \in RowDates(loaded), hi \in RowDates(loaded) :
                    /\ lo <= hi
                    /\ Cycle(loaded, request_type, lo, hi)
        /\ UNCHANGED <<source, now, call, aggVars, liveVars>>

SidebarDates == {Date(2023, 1, 15), Date(2024, 1, 5)}

InitMain ==
    /\ source \in SeqsUpTo(FileRows, MaxSrcRows)
    /\ now = Date(2024, 6, 1)
    /\ cache = <<>>
    /\ call = None
    /\ run = None
    /\ data = None /\ before = None /\ op = "none" /\ arg = None /\ out = None
    /\ remote = <<>> /\ liveCache = None /\ live = None

NextMain ==
    \E start_date \in SidebarDates, end_date \in SidebarDates :
        Main(start_date, end_date)

SpecMain == InitMain /\ [][NextMain]_vars

-----------------------------------------------------------------------------
(* liveapp.py: load_data from the remote endpoint, then main's coercion.   *)

Digits == <<"0", "1", "2", "3", "4", "5", "6", "7", "8", "9">>

IsDigit(c) == \E i \in DOMAIN Digits : Digits[i] = c

DigitValue(c) == (CHOOSE i \in DOMAIN Digits : Digits[i] = c) - 1

RECURSIVE digits_value(_)
digits_value(text) ==
    IF text = <<>> THEN 0
    ELSE digits_value(SubSeq(text, 1, Len(text) - 1)) * 10 + DigitValue(text[Len(text)])

AllDigits(text) == \A i \in DOMAIN text : IsDigit(text[i])

\* A number of the lat/long columns is kept in hundredths (39.1 is 3910).
\* The text is a sequence of characters: an optional sign, digits, and an
\* optional point followed by at most two digits.
unsigned_value(text) ==
    LET dots == {i \in DOMAIN text : text[i] = "."}
    IN  IF dots = {}
        THEN IF text # <<>> /\ AllDigits(text) THEN digits_value(text) * 100 ELSE NaN
        ELSE LET dot      == CHOOSE i \in dots : TRUE
                 whole    == SubSeq(text, 1, dot - 1)
                 fraction == SubSeq(text, dot + 1, Len(text))
             IN  IF /\ Cardinality(dots) = 1
                    /\ AllDigits(whole) /\ AllDigits(fraction)
                    /\ Len(whole) + Len(fraction) > 0
                    /\ Len(fraction) <= 2
                 THEN digits_value(whole) * 100
                        + (IF Len(fraction) = 1 THEN digits_value(fraction) * 10
                           ELSE digits_value(fraction))
                 ELSE NaN

\* variant: a leading sign is not accepted
to_numeric_unsigned(text) == unsigned_value(text)

\* pd.to_numeric(..., errors='coerce') on one cell
to_numeric(text) ==
    IF text # <<>> /\ Head(text) = "-"
    THEN LET v == unsigned_value(Tail(text)) IN IF v = NaN THEN NaN ELSE 0 - v
    ELSE unsigned_value(text)

\* pd.DataFrame(response.json()): one row per object of the array, the
\* columns are the keys that occur
DataFrame(objects) ==
    [rows |-> objects,
     columns |-> IF objects = <<>> THEN {} ELSE {"lat", "long"}]

\* @st.cache_data on a function without arguments: the first answer is kept
cached_fetch(store, answer) ==
    IF store.none
    THEN [ret |-> DataFrame(answer), store |-> Some(DataFrame(answer))]
    ELSE [ret |-> store.v, store |-> store]

\* df['lat'] = pd.to_numeric(df['lat'], errors='coerce'), the same for 'long'
coerce(df) ==
    [rows |-> [i \in DOMAIN df.rows |->
                  [lat  |-> to_numeric(df.rows[i].lat),
                   long |-> to_numeric(df.rows[i].long)]],
     columns |-> df.columns]

\* objects of the JSON array; every value is a string
JsonObjects ==
    { [lat |-> <<"3", "9", ".", "1">>, long |-> <<"-", "8", "6", ".", "5">>],
      [lat |-> <<"N", "/", "A">>,      long |-> <<"-", "8", "6", ".", "5">>],
      [lat |-> <<"3", "9", ".", "1">>, long |-> <<"N", "/", "A">>],
      [lat |-> <<>>,                   long |-> <<"8", "6">>],
      [lat |-> <<"3", "9", ".", "1", "x">>, long |-> <<"8", ".", "6", ".", "5">>] }

InitLive ==
    /\ remote \in SeqsUpTo(JsonObjects, MaxLiveRows)
    /\ liveCache = None
    /\ live = None
    /\ source = <<>> /\ now = 0 /\ cache = <<>> /\ call = None /\ run = None
    /\ data = None /\ before = None /\ op = "none" /\ arg = None /\ out = None

\* one request cycle of liveapp.main
LiveMain ==
    LET r == cached_fetch(liveCache, remote)
    IN  /\ liveCache' = r.store
        /\ live' = IF "lat" \notin r.ret.columns
                   THEN \* df['lat'] of a frame without columns: KeyError
                        Some([raised |-> "KeyError", loaded |-> r.ret, df |-> r.ret])
                   ELSE Some([raised |-> "", loaded |-> r.ret, df |-> coerce(r.ret)])
        /\ UNCHANGED <<remote, loadVars, run, aggVars>>

\* the endpoint's data set changes
RemoteChange ==
    /\ \E answer \in SeqsUpTo(JsonObjects, MaxLiveRows) :
           answer # remote /\ remote' = answer
    /\ UNCHANGED <<liveCache, live, loadVars, run, aggVars>>

NextLive ==
    \/ LiveMain
    \/ RemoteChange

SpecLive == InitLive /\ [][NextLive]_vars

-----------------------------------------------------------------------------
(* Properties of the Filter Engine and the Aggregator (SpecAgg).           *)

Selected(row, C) == C.none \/ C.v = {} \/ row.service_name \in C.v

KeptRows(T, C) == {i \in DOMAIN T.rows : Selected(T.rows[i], C)}

RECURSIVE TotalDays(_, _)
TotalDays(rows, I) ==
    IF I = {} THEN 0
    ELSE LET i == CHOOSE x \in I : TRUE
         IN  rows[i].resolution_days + TotalDays(rows, I \ {i})

Closed(rows) == {i \in DOMAIN rows : rows[i].resolution_days # NaN}

\* C1: the category filter returns the records of the table whose
\* service_name is in the set, each of them and no other, in the table's
\* order; with an empty or absent set it returns the table itself.
C1_CategoryFilter ==
    op = "filter" =>
        LET keep == KeptRows(before, arg)
        IN  /\ out.columns = before.columns
            /\ Len(out.rows) = Cardinality(keep)
            /\ \A i \in keep :
                   out.rows[Cardinality({j \in keep : j <= i})] = before.rows[i]
            /\ (~arg.none /\ arg.v # {}) =>
                   \A k \in DOMAIN out.rows : out.rows[k].service_name \in arg.v
            /\ (arg.none \/ arg.v = {}) => out = before

C1_Witness ==
    /\ op = "filter"
    /\ ~arg.none /\ Cardinality(arg.v) = 2
    /\ Len(before.rows) = 3
    /\ Len(out.rows) = 2
    /\ out.rows[1].service_name # out.rows[2].service_name

\* C2 as stated: monthly_avg_resolution returns twelve entries, January to
\* December, whatever the table.
C2_TwelveMonths ==
    op = "monthly_avg_resolution" =>
        /\ Len(out) = 12
        /\ \A i \in DOMAIN out : out[i].month = months_order[i]

\* C2 amended: monthly_avg_resolution returns one entry per month name that
\* occurs in the table (none for the empty table), in calendar order, each
\* with the mean of the non-null resolution_days of that month's records of
\* all years, undefined when none of them is closed.
C2_MonthsPresent ==
    op = "monthly_avg_resolution" =>
        LET rows == before.rows
            InMonth(name) ==
                {i \in DOMAIN rows :
                    months_order[CivilFromDays(rows[i].requested_datetime \div 24).m] = name}
        IN  /\ \A i \in DOMAIN rows : \E k \in DOMAIN out :
                   out[k].month = months_order[CivilFromDays(rows[i].requested_datetime \div 24).m]
            /\ \A k \in DOMAIN out :
                   /\ InMonth(out[k].month) # {}
                   /\ out[k].resolution_days.n =
                          Cardinality(InMonth(out[k].month) \cap Closed(rows))
                   /\ out[k].resolution_days.sum =
                          TotalDays(rows, InMonth(out[k].month) \cap Closed(rows))
            /\ \A k, l \in DOMAIN out :
                   k < l => RankIn(months_order, out[k].month) < RankIn(months_order, out[l].month)

C2_Witness ==
    /\ op = "monthly_avg_resolution"
    /\ Len(before.rows) = 3
    /\ Len(out) = 2
    /\ out[1].month = "January" /\ out[1].resolution_days.n = 2
    /\ out[2].month = "February" /\ out[2].resolution_days.n = 0

\* C3: mean_resolution is undefined exactly when every record has a null
\* resolution_days; otherwise it is the sum of resolution_days over the
\* records that have both timestamps divided by their number.
C3_MeanResolution ==
    op = "mean_resolution" =>
        LET rows == before.rows
            both == {i \in DOMAIN rows : /\ rows[i].requested_datetime # NaT
                                         /\ rows[i].closed_date # NaT}
        IN  /\ (out.n = 0) <=> (\A i \in DOMAIN rows : rows[i].resolution_days = NaN)
            /\ out.n = Cardinality(both)
            /\ out.sum = TotalDays(rows, both)

C3_Witness ==
    /\ op = "mean_resolution"
    /\ Len(before.rows) = 2
    /\ before.rows[1].resolution_days = 5
    /\ before.rows[2].resolution_days = NaN
    /\ out = [sum |-> 5, n |-> 1]

FirstIndex(rows, name) ==
    CHOOSE i \in DOMAIN rows :
        /\ rows[i].service_name = name
        /\ \A j \in DOMAIN rows : rows[j].service_name = name => i <= j

\* C4 as stated: category_counts is ordered by count descending and two
\* categories with equal counts keep the order of their first occurrence.
C4_TiesFirstSeen ==
    op = "category_counts" =>
        \A k, l \in DOMAIN out :
            k < l =>
                \/ out[k].count > out[l].count
                \/ /\ out[k].count = out[l].count
                   /\ FirstIndex(before.rows, out[k].service_name)
                        < FirstIndex(before.rows, out[l].service_name)

\* C4 amended: category_counts has one entry per distinct category with the
\* number of its records, ordered by count descending; the order of
\* categories with equal counts is not fixed.
C4_CountsDescending ==
    op = "category_counts" =>
        LET rows == before.rows
        IN  /\ \A i \in DOMAIN rows : \E k \in DOMAIN out :
                   out[k].service_name = rows[i].service_name
            /\ \A k, l \in DOMAIN out :
                   out[k].service_name = out[l].service_name => k = l
            /\ \A k \in DOMAIN out :
                   /\ out[k].count > 0
                   /\ out[k].count =
                          Cardinality({i \in DOMAIN rows :
                                          rows[i].service_name = out[k].service_name})
            /\ \A k, l \in DOMAIN out : k < l => out[k].count >= out[l].count

C4_Witness ==
    /\ op = "category_counts"
    /\ Len(before.rows) = 3
    /\ Len(out) = 2
    /\ out[1].count = 2 /\ out[2].count = 1
    /\ before.rows[1].service_name = out[2].service_name

\* C5: monthly_series has one entry per non-empty bucket of the selected
\* records, with the number of records in it, in chronological order of the
\* month; the bucket is the first of the month of requested_datetime, split
\* by service_name only when more than one category is selected.
C5_MonthlySeries ==
    op = "monthly_series" =>
        LET rows    == before.rows
            keep    == KeptRows(before, arg)
            grouped == ~arg.none /\ Cardinality(arg.v) > 1
            ym(ts)  == LET c == CivilFromDays(ts \div 24) IN <<c.y, c.m>>
            Same(i, e) ==
                /\ ym(rows[i].requested_datetime) = ym(e.month_year)
                /\ grouped => e.service_name = rows[i].service_name
        IN  /\ \A k \in DOMAIN out :
                   /\ DOMAIN out[k] = IF grouped THEN {"month_year", "service_name", "count"}
                                                 ELSE {"month_year", "count"}
                   /\ CivilFromDays(out[k].month_year \div 24).d = 1
                   /\ out[k].month_year % 24 = 0
                   /\ out[k].count > 0
                   /\ out[k].count = Cardinality({i \in keep : Same(i, out[k])})
            /\ \A i \in keep : \E k \in DOMAIN out : Same(i, out[k])
            /\ \A k, l \in DOMAIN out :
                   k < l => /\ out[k].month_year <= out[l].month_year
                            /\ out[k] # out[l]
                            /\ ~grouped => out[k].month_year < out[l].month_year
            /\ ( /\ arg.none
                 /\ Len(rows) = 2
                 /\ rows[1].requested_datetime = to_datetime(<<2023, 1, 15, 0>>)
                 /\ rows[2].requested_datetime = to_datetime(<<2023, 2, 10, 0>>) )
               => out = << [month_year |-> to_datetime(<<2023, 1, 1, 0>>), count |-> 1],
                           [month_year |-> to_datetime(<<2023, 2, 1, 0>>), count |-> 1] >>

C5_Witness ==
    /\ op = "monthly_series"
    /\ ~arg.none /\ Cardinality(arg.v) = 2
    /\ Len(before.rows) = 3
    /\ Len(out) = 2
    /\ out[1].month_year = out[2].month_year
    /\ out[1].service_name # out[2].service_name

\* C9: no filter or aggregation changes the table it is given: after the
\* call the table has the records and the columns it had before.
C9_InputUnchanged ==
    op # "none" => data = before

-----------------------------------------------------------------------------
(* Properties of the Record Store (SpecLoad).                              *)

\* C7: a load with both bounds returns the records of the source whose
\* requested date lies in [start_date, end_date], each of them and no other;
\* a load without bounds returns the records of the current year.
C7_LoadSelects ==
    ~call.none =>
        LET c     == call.v
            rows  == read_csv(c.file).rows
            day(i) == rows[i].requested_datetime \div 24
            keep  == IF ~c.start_date.none /\ ~c.end_date.none
                     THEN {i \in DOMAIN rows : c.start_date.v <= day(i) /\ day(i) <= c.end_date.v}
                     ELSE {i \in DOMAIN rows : CivilFromDays(day(i)).y = CivilFromDays(c.today).y}
        IN  (c.start_date.none = c.end_date.none) =>
                /\ Len(c.ret.rows) = Cardinality(keep)
                /\ \A i \in keep :
                       c.ret.rows[Cardinality({j \in keep : j <= i})] = rows[i]

\* C8: whatever calls, clock ticks and changes of the source came before, a
\* load call returns the table an uncached load with the same arguments
\* returns at that moment.
C8_CacheTransparent ==
    ~call.none =>
        call.v.ret = load_body(call.v.file, call.v.start_date, call.v.end_date,
                               call.v.today)

-----------------------------------------------------------------------------
(* Properties of the request cycle of app.main (SpecMain).                 *)

\* C6: a selection that matches no record is a normal state: the cycle
\* completes without an exception, with no category, an undefined mean
\* resolution and an empty monthly series.
C6_EmptySelectionCompletes ==
    (~run.none /\ (run.v.loaded.rows = <<>> \/ run.v.selection.rows = <<>>)) =>
        /\ run.v.raised = ""
        /\ run.v.selection.rows = <<>>
        /\ run.v.total_requests = 0
        /\ run.v.unique_request_types = 0
        /\ run.v.avg_response_time.n = 0
        /\ run.v.service_monthly = <<>>

-----------------------------------------------------------------------------
(* Properties of liveapp.main (SpecLive).                                  *)

ExpectedNumber(text) ==
    CASE text = <<"3", "9", ".", "1">>      -> 3910
      [] text = <<"-", "8", "6", ".", "5">> -> 0 - 8650
      [] text = <<"8", "6">>                -> 8600
      [] OTHER                              -> NaN

\* C10: for every record of the remote answer a non-numeric lat or long
\* becomes the missing marker on that field alone and a numeric text becomes
\* its number; the cycle does not fail and keeps every record.
C10_Coercion ==
    (~live.none /\ live.v.loaded.rows # <<>>) =>
        /\ live.v.raised = ""
        /\ Len(live.v.df.rows) = Len(live.v.loaded.rows)
        /\ \A i \in DOMAIN live.v.loaded.rows :
               /\ live.v.df.rows[i].lat = ExpectedNumber(live.v.loaded.rows[i].lat)
               /\ live.v.df.rows[i].long = ExpectedNumber(live.v.loaded.rows[i].long)

C10_Witness ==
    /\ ~live.none
    /\ live.v.raised = ""
    /\ Len(live.v.loaded.rows) = 2
    /\ live.v.loaded.rows[1].lat = <<"N", "/", "A">>
    /\ live.v.loaded.rows[2].lat = <<"3", "9", ".", "1">>
    /\ live.v.df.rows[1] = [lat |-> NaN, long |-> 0 - 8650]
    /\ live.v.df.rows[2].lat = 3910

====
